---- MODULE Spec2Model ----
(***************************************************************************)
(* Model of google_tasks_to_sp.py: the two-pass conversion of a Google     *)
(* Tasks export (task lists of tasks) into a Super Productivity backup     *)
(* (projects and tasks), and the structural validator validate_sp_data.    *)
(*                                                                         *)
(* The input document is read one task list and one task at a time, as     *)
(* the loops of convert_google_tasks_to_sp and convert_task_list do; what  *)
(* each item holds is chosen when it is read and logged in `source`.       *)
(***************************************************************************)
EXTENDS Integers, Sequences, FiniteSets, TLC

(***************************************************************************)
(* Bounds of the explored inputs: the original ids are 1..MaxId, a         *)
(* document holds at most MaxLists task lists and MaxTasks tasks over all  *)
(* its lists, of which at most MaxSkipped are deleted or hidden.           *)
(***************************************************************************)
MaxId == 1
MaxTasks == 2
MaxLists == 2
MaxSkipped == 1

(***************************************************************************)
(* Values.  An original id or a parent field is 1..MaxId; 0 stands for an  *)
(* absent key, None or the empty string, which the code does not tell      *)
(* apart (gtask.get('id', ''), `if original_id`, `if parent_original_id`). *)
(* A generated uuid is a positive number; None is the absent parentId.     *)
(***************************************************************************)
None == 0

OriginalIds == 0..MaxId

GTasks == [id : OriginalIds, parent : OriginalIds, deleted : BOOLEAN, hidden : BOOLEAN]

(***************************************************************************)
(* A Python dict: the keys in insertion order and the value of each key.   *)
(***************************************************************************)
EmptyDict == [keys |-> <<>>, at |-> [k \in {} |-> None]]

DictHas(d, k) == k \in DOMAIN d.at

DictPut(d, k, v) ==
    [keys |-> IF DictHas(d, k) THEN d.keys ELSE Append(d.keys, k),
     at   |-> [x \in (DOMAIN d.at) \cup {k} |-> IF x = k THEN v ELSE d.at[x]]]

SeqToSet(s) == {s[i] : i \in DOMAIN s}

SelectSeqIn(s, keep) ==
    LET F[i \in 0..Len(s)] ==
            IF i = 0 THEN <<>>
            ELSE IF s[i] \in keep THEN Append(F[i - 1], s[i]) ELSE F[i - 1]
    IN F[Len(s)]

VARIABLES
    pc,                   \* "lists": between task lists; "items": inside convert_task_list; "done"
    uuids,                \* number of uuids generated so far
    source,               \* the source tasks read so far: [list, gtask, new_id]
    lists,                \* the project id generated for each task list read so far
    id_mapping,           \* original id -> new id
    all_tasks,            \* new id -> converted task
    task_id_to_original,  \* new id -> gtask
    project_task_ids,     \* project id -> task ids
    project_id,           \* convert_task_list: the project of the list being read
    task_ids,             \* convert_task_list: the ids produced for the list being read
    sp_data               \* the output document's project and task tables

\* A run of validate_sp_data on a document of its own.
VARIABLES
    vpc,                  \* "idle", "call": before the call, "returned"
    sp_doc,               \* the backup passed to validate_sp_data
    errors                \* the list validate_sp_data returned

conversion_vars == <<pc, uuids, source, lists, id_mapping, all_tasks, task_id_to_original,
                     project_task_ids, project_id, task_ids, sp_data>>

\* A run of main.
VARIABLES
    mpc,                  \* "idle", "read", "convert", "validate", "write", "summary", "exit"
    args,                 \* the switches --validate, --dry-run and --verbose
    input_file,           \* what the input path holds
    export_result,        \* what the conversion of the input returns
    output_disk,          \* how the output path behaves when written
    main_sp_data,         \* main's sp_data
    main_errors,          \* main's errors
    validator_ran,        \* validate_sp_data was called
    output_opened,        \* the output file was opened for writing
    output_written,       \* the output file holds the document
    exit_status           \* "running", "0" or "1"

\* A conversion of the completion and time fields of one task, and a call of
\* sanitize_title.
VARIABLES
    fpc,                  \* "idle", "call" or "returned"
    gtask_fields,         \* the source task's status, completed and updated
    current_ts,           \* what the clock reads during the call
    sp_task,              \* the converted task's isDone, doneOn, created and updated
    tpc,                  \* "idle", "task", "project" or "returned"
    title,                \* the title of the source task or task list
    sanitized             \* the title of the converted task or project

\* The loop of validate_sp_data over the parent references, lines 780-797.
VARIABLES
    wpc,                  \* "idle", "tasks" (the for loop), "walk" (the while loop), "returned"
    w_entities,           \* task_entities
    w_task,               \* the position of the for loop in task_entities
    w_visited,            \* visited
    w_current,            \* current
    w_errors              \* the errors appended so far

validation_vars == <<vpc, sp_doc, errors>>

walk_vars == <<wpc, w_entities, w_task, w_visited, w_current, w_errors>>

field_vars == <<fpc, gtask_fields, current_ts, sp_task>>

title_vars == <<tpc, title, sanitized>>

function_vars == <<field_vars, title_vars, walk_vars>>

main_vars == <<mpc, args, input_file, export_result, output_disk, main_sp_data, main_errors,
               validator_ran, output_opened, output_written, exit_status>>

vars == <<conversion_vars, validation_vars, main_vars, function_vars>>

(***************************************************************************)
(* generate_uuid: the next identifier never handed out before.             *)
(***************************************************************************)
generate_uuid(n) == n + 1

(***************************************************************************)
(* The eligibility of a source task as the specification states it: a task *)
(* marked deleted or hidden is dropped.                                    *)
(***************************************************************************)
Eligible(gtask) == ~gtask.deleted /\ ~gtask.hidden

(***************************************************************************)
(* convert_task_with_assigned_id, line 223: the test that skips a task.    *)
(***************************************************************************)
skip_only_deleted(gtask) == gtask.deleted

skip_task(gtask) == gtask.deleted \/ gtask.hidden

(***************************************************************************)
(* convert_task_with_assigned_id: <<>> for a skipped task, else <<task>>.  *)
(***************************************************************************)
parent_lookup(gtask, mapping) ==
    IF gtask.parent # 0 /\ gtask.parent \in DOMAIN mapping
    THEN mapping[gtask.parent]
    ELSE None

convert_task_reusing_mapped_id(gtask, proj, assigned_id, mapping) ==
    IF skip_task(gtask)
    THEN <<>>
    ELSE << [id         |-> IF gtask.id \in DOMAIN mapping THEN mapping[gtask.id]
                            ELSE assigned_id,
             projectId  |-> proj,
             parentId   |-> parent_lookup(gtask, mapping),
             subTaskIds |-> <<>>] >>

convert_task_with_assigned_id(gtask, proj, assigned_id, mapping) ==
    IF skip_task(gtask)
    THEN <<>>
    ELSE << [id         |-> assigned_id,
             projectId  |-> proj,
             parentId   |-> parent_lookup(gtask, mapping),
             subTaskIds |-> <<>>] >>

(***************************************************************************)
(* convert_task_list, line 348-349: only the first occurrence is stored.   *)
(***************************************************************************)
store_mapping_last_wins(mapping, original_id, new_id) ==
    IF original_id # 0
    THEN [x \in (DOMAIN mapping) \cup {original_id} |->
              IF x = original_id THEN new_id ELSE mapping[x]]
    ELSE mapping

store_mapping(mapping, original_id, new_id) ==
    IF original_id # 0 /\ original_id \notin DOMAIN mapping
    THEN [x \in (DOMAIN mapping) \cup {original_id} |->
              IF x = original_id THEN new_id ELSE mapping[x]]
    ELSE mapping

(***************************************************************************)
(* build_subtask_relationships: the second pass over task_id_to_original,  *)
(* in insertion order.  Returns the updated tasks and the subtask ids.     *)
(***************************************************************************)
link_child_list_only(tasks, task_id, parent_new_id) ==
    IF task_id \in SeqToSet(tasks.at[parent_new_id].subTaskIds)
    THEN tasks
    ELSE [tasks EXCEPT !.at[parent_new_id].subTaskIds = Append(@, task_id)]

link_child_parent_only(tasks, task_id, parent_new_id) ==
    [tasks EXCEPT !.at[task_id].parentId = parent_new_id]

link_child_appending_always(tasks, task_id, parent_new_id) ==
    LET t1 == [tasks EXCEPT !.at[task_id].parentId = parent_new_id]
    IN [t1 EXCEPT !.at[parent_new_id].subTaskIds = Append(@, task_id)]

link_child_moving_to_parent_project(tasks, task_id, parent_new_id) ==
    LET t1 == [tasks EXCEPT !.at[task_id].parentId = parent_new_id,
                            !.at[task_id].projectId = tasks.at[parent_new_id].projectId]
    IN IF task_id \in SeqToSet(t1.at[parent_new_id].subTaskIds)
       THEN t1
       ELSE [t1 EXCEPT !.at[parent_new_id].subTaskIds = Append(@, task_id)]

link_child(tasks, task_id, parent_new_id) ==
    LET t1 == [tasks EXCEPT !.at[task_id].parentId = parent_new_id]
    IN IF task_id \in SeqToSet(t1.at[parent_new_id].subTaskIds)
       THEN t1
       ELSE [t1 EXCEPT !.at[parent_new_id].subTaskIds = Append(@, task_id)]

build_step(acc, task_id, gtask, mapping) ==
    IF gtask.parent = 0 THEN acc
    ELSE IF ~DictHas(acc.tasks, task_id) THEN acc
    ELSE LET parent_new_id == IF gtask.parent \in DOMAIN mapping
                              THEN mapping[gtask.parent] ELSE None
         IN IF parent_new_id # None /\ DictHas(acc.tasks, parent_new_id)
            THEN [tasks       |-> link_child(acc.tasks, task_id, parent_new_id),
                  subtask_ids |-> acc.subtask_ids \cup {task_id}]
            ELSE acc

build_subtask_relationships(tasks, mapping, originals) ==
    LET F[i \in 0..Len(originals.keys)] ==
            IF i = 0 THEN [tasks |-> tasks, subtask_ids |-> {}]
            ELSE build_step(F[i - 1], originals.keys[i],
                            originals.at[originals.keys[i]], mapping)
    IN F[Len(originals.keys)]

(***************************************************************************)
(* convert_google_tasks_to_sp, lines 715-717: every project keeps the ids  *)
(* of its list that are not subtasks.                                      *)
(***************************************************************************)
top_level_task_ids_keeping_all(ids, subtask_ids) == ids

top_level_task_ids(ids, subtask_ids) ==
    SelectSeqIn(ids, SeqToSet(ids) \ subtask_ids)

filter_projects_first_only(projects, ptids, subtask_ids) ==
    IF ptids.keys = <<>> THEN projects
    ELSE LET p == ptids.keys[1]
         IN [projects EXCEPT !.at[p].taskIds = top_level_task_ids(ptids.at[p], subtask_ids)]

filter_projects(projects, ptids, subtask_ids) ==
    LET F[i \in 0..Len(ptids.keys)] ==
            IF i = 0 THEN projects
            ELSE LET p == ptids.keys[i]
                 IN [F[i - 1] EXCEPT !.at[p].taskIds =
                         top_level_task_ids(ptids.at[p], subtask_ids)]
    IN F[Len(ptids.keys)]

(***************************************************************************)
(* State after lines 676-689.                                              *)
(***************************************************************************)
ConversionInit ==
    /\ pc = "lists"
    /\ uuids = 0
    /\ source = <<>>
    /\ lists = <<>>
    /\ id_mapping = [k \in {} |-> None]
    /\ all_tasks = EmptyDict
    /\ task_id_to_original = EmptyDict
    /\ project_task_ids = EmptyDict
    /\ project_id = None
    /\ task_ids = <<>>
    /\ sp_data = [project |-> [ids |-> <<>>, entities |-> EmptyDict],
                  task    |-> [ids |-> <<>>, entities |-> EmptyDict]]

\* No run of main is under way.
MainIdle ==
    /\ mpc = "idle"
    /\ args = [validate |-> FALSE, dry_run |-> FALSE, verbose |-> FALSE]
    /\ input_file = "export"
    /\ export_result = [keys |-> {}]
    /\ output_disk = "writable"
    /\ main_sp_data = [keys |-> {}]
    /\ main_errors = <<>>
    /\ validator_ran = FALSE
    /\ output_opened = FALSE
    /\ output_written = FALSE
    /\ exit_status = "running"

\* No task's fields are being converted and no title is being sanitized.
FieldsIdle ==
    /\ fpc = "idle"
    /\ gtask_fields = <<>>
    /\ current_ts = 0
    /\ sp_task = <<>>

TitleIdle ==
    /\ tpc = "idle"
    /\ title = <<>>
    /\ sanitized = <<>>

\* No loop over the parent references is under way.
WalkIdle ==
    /\ wpc = "idle"
    /\ w_entities = EmptyDict
    /\ w_task = 0
    /\ w_visited = {}
    /\ w_current = None
    /\ w_errors = <<>>

FunctionsIdle == FieldsIdle /\ TitleIdle /\ WalkIdle

\* No call of validate_sp_data is under way.
ValidationIdle ==
    /\ vpc = "idle"
    /\ sp_doc = [keys |-> {}]
    /\ errors = <<>>

Init == ConversionInit /\ ValidationIdle /\ MainIdle /\ FunctionsIdle

NumSkipped == Cardinality({i \in DOMAIN source : ~Eligible(source[i].gtask)})

(***************************************************************************)
(* convert_task_list, lines 333-337: the next task list is entered.        *)
(***************************************************************************)
BeginTaskList ==
    /\ pc = "lists"
    /\ Len(lists) < MaxLists
    /\ pc' = "items"
    /\ uuids' = generate_uuid(uuids)
    /\ project_id' = generate_uuid(uuids)
    /\ task_ids' = <<>>
    /\ lists' = Append(lists, generate_uuid(uuids))
    /\ UNCHANGED <<source, id_mapping, all_tasks, task_id_to_original,
                   project_task_ids, sp_data>>
    /\ UNCHANGED <<validation_vars, main_vars, function_vars>>

(***************************************************************************)
(* convert_task_list, lines 341-357: one iteration of the loop over items. *)
(***************************************************************************)
ConvertItem ==
    /\ pc = "items"
    /\ Len(source) < MaxTasks
    /\ \E gtask \in GTasks :
        /\ ~Eligible(gtask) => NumSkipped < MaxSkipped
        /\ LET new_id  == generate_uuid(uuids)
               mapping == store_mapping(id_mapping, gtask.id, new_id)
               task    == convert_task_with_assigned_id(gtask, project_id, new_id, mapping)
           IN /\ uuids' = new_id
              /\ id_mapping' = mapping
              /\ source' = Append(source, [list |-> Len(lists), gtask |-> gtask, new_id |-> new_id])
              /\ IF Len(task) > 0
                 THEN /\ all_tasks' = DictPut(all_tasks, task[1].id, task[1])
                      /\ task_ids' = Append(task_ids, task[1].id)
                      /\ task_id_to_original' = DictPut(task_id_to_original, task[1].id, gtask)
                 ELSE UNCHANGED <<all_tasks, task_ids, task_id_to_original>>
    /\ UNCHANGED <<pc, lists, project_task_ids, project_id, sp_data>>
    /\ UNCHANGED <<validation_vars, main_vars, function_vars>>

(***************************************************************************)
(* convert_task_list, lines 359-386, and lines 697-701 of the caller: the  *)
(* project is created and added to the output.                             *)
(***************************************************************************)
EndTaskList_dropping_empty_lists ==
    /\ pc = "items"
    /\ pc' = "lists"
    /\ LET project == [id |-> project_id, taskIds |-> task_ids]
       IN IF task_ids = <<>>
          THEN UNCHANGED <<project_task_ids, sp_data>>
          ELSE /\ project_task_ids' = DictPut(project_task_ids, project.id, task_ids)
               /\ sp_data' = [sp_data EXCEPT
                      !.project.ids = Append(@, project.id),
                      !.project.entities = DictPut(@, project.id, project)]
    /\ UNCHANGED <<uuids, source, lists, id_mapping, all_tasks, task_id_to_original,
                   project_id, task_ids>>
    /\ UNCHANGED <<validation_vars, main_vars, function_vars>>

EndTaskList ==
    /\ pc = "items"
    /\ pc' = "lists"
    /\ LET project == [id |-> project_id, taskIds |-> task_ids]
       IN /\ project_task_ids' = DictPut(project_task_ids, project.id, task_ids)
          /\ sp_data' = [sp_data EXCEPT
                 !.project.ids = Append(@, project.id),
                 !.project.entities = DictPut(@, project.id, project)]
    /\ UNCHANGED <<uuids, source, lists, id_mapping, all_tasks, task_id_to_original,
                   project_id, task_ids>>
    /\ UNCHANGED <<validation_vars, main_vars, function_vars>>

(***************************************************************************)
(* convert_google_tasks_to_sp, lines 708-729: the second pass, the         *)
(* filtering of the projects' taskIds and the copy of the tasks to the     *)
(* output.                                                                 *)
(***************************************************************************)
Finish ==
    /\ pc = "lists"
    /\ pc' = "done"
    /\ LET built == build_subtask_relationships(all_tasks, id_mapping, task_id_to_original)
       IN /\ all_tasks' = built.tasks
          /\ sp_data' = [sp_data EXCEPT
                 !.project.entities = filter_projects(@, project_task_ids, built.subtask_ids),
                 !.task.ids = @ \o built.tasks.keys,
                 !.task.entities = built.tasks]
    /\ UNCHANGED <<uuids, source, lists, id_mapping, task_id_to_original,
                   project_task_ids, project_id, task_ids>>
    /\ UNCHANGED <<validation_vars, main_vars, function_vars>>

Next == BeginTaskList \/ ConvertItem \/ EndTaskList \/ Finish

Spec == Init /\ [][Next]_vars

(***************************************************************************)
(* validate_sp_data.  A backup is the set of its top-level keys and its    *)
(* data; an error is the kind of its message and the ids the message       *)
(* names.  The errors come in the order the code appends them.             *)
(***************************************************************************)
Err(kind, a, b) == [kind |-> kind, a |-> a, b |-> b]

envelope_errors(keys) ==
    (IF "crossModelVersion" \in keys THEN <<>> ELSE <<Err("missing crossModelVersion", None, None)>>)
    \o (IF "timestamp" \in keys THEN <<>> ELSE <<Err("missing timestamp", None, None)>>)
    \o (IF "lastUpdate" \in keys THEN <<>> ELSE <<Err("missing lastUpdate", None, None)>>)

duplicate_errors(ids) ==
    IF Len(ids) # Cardinality(SeqToSet(ids))
    THEN <<Err("duplicate task ids", None, None)>>
    ELSE <<>>

entity_errors(ids, task_entities) ==
    LET F[i \in 0..Len(ids)] ==
            IF i = 0 THEN <<>>
            ELSE IF DictHas(task_entities, ids[i]) THEN F[i - 1]
            ELSE Append(F[i - 1], Err("id without entity", ids[i], None))
    IN F[Len(ids)]

project_reference_errors(task_entities, project_entities) ==
    LET F[i \in 0..Len(task_entities.keys)] ==
            IF i = 0 THEN <<>>
            ELSE LET task_id == task_entities.keys[i]
                     proj    == task_entities.at[task_id].projectId
                 IN IF proj # None /\ ~DictHas(project_entities, proj)
                    THEN Append(F[i - 1], Err("non-existent project", task_id, proj))
                    ELSE F[i - 1]
    IN F[Len(task_entities.keys)]

RECURSIVE ancestor_walk(_, _, _)
ancestor_walk(task_entities, visited, current) ==
    IF current = None THEN FALSE
    ELSE IF current \in visited THEN TRUE
    ELSE ancestor_walk(task_entities, visited \cup {current},
                       IF DictHas(task_entities, current)
                       THEN task_entities.at[current].parentId
                       ELSE None)

parent_errors_direct_only(task_entities, task_id) ==
    LET parent_id == task_entities.at[task_id].parentId
    IN IF parent_id = None THEN <<>>
       ELSE IF ~DictHas(task_entities, parent_id)
            THEN <<Err("non-existent parent", task_id, parent_id)>>
       ELSE IF parent_id = task_id
            THEN <<Err("own parent", task_id, None)>>
       ELSE <<>>

parent_errors_of(task_entities, task_id) ==
    LET parent_id == task_entities.at[task_id].parentId
    IN IF parent_id = None THEN <<>>
       ELSE IF ~DictHas(task_entities, parent_id)
            THEN <<Err("non-existent parent", task_id, parent_id)>>
       ELSE IF parent_id = task_id
            THEN <<Err("own parent", task_id, None)>>
       ELSE IF ancestor_walk(task_entities, {task_id}, parent_id)
            THEN <<Err("circular", task_id, None)>>
       ELSE <<>>

parent_errors(task_entities) ==
    LET F[i \in 0..Len(task_entities.keys)] ==
            IF i = 0 THEN <<>>
            ELSE F[i - 1] \o parent_errors_of(task_entities, task_entities.keys[i])
    IN F[Len(task_entities.keys)]

subtask_errors_of(task_entities, task_id) ==
    LET subs == task_entities.at[task_id].subTaskIds
        F[i \in 0..Len(subs)] ==
            IF i = 0 THEN <<>>
            ELSE IF ~DictHas(task_entities, subs[i])
                 THEN Append(F[i - 1], Err("non-existent subtask", task_id, subs[i]))
            ELSE IF task_entities.at[subs[i]].parentId # task_id
                 THEN Append(F[i - 1], Err("subtask without parent", subs[i], task_id))
            ELSE F[i - 1]
    IN F[Len(subs)]

subtask_errors(task_entities) ==
    LET F[i \in 0..Len(task_entities.keys)] ==
            IF i = 0 THEN <<>>
            ELSE F[i - 1] \o subtask_errors_of(task_entities, task_entities.keys[i])
    IN F[Len(task_entities.keys)]

project_task_errors_existence_only(task_entities, project_entities, proj) ==
    LET ids == project_entities.at[proj].taskIds
        F[i \in 0..Len(ids)] ==
            IF i = 0 THEN <<>>
            ELSE IF ~DictHas(task_entities, ids[i])
                 THEN Append(F[i - 1], Err("project lists non-existent task", proj, ids[i]))
            ELSE F[i - 1]
    IN F[Len(ids)]

project_task_errors_of(task_entities, project_entities, proj) ==
    LET ids == project_entities.at[proj].taskIds
        F[i \in 0..Len(ids)] ==
            IF i = 0 THEN <<>>
            ELSE IF ~DictHas(task_entities, ids[i])
                 THEN Append(F[i - 1], Err("project lists non-existent task", proj, ids[i]))
            ELSE IF task_entities.at[ids[i]].parentId # None
                 THEN Append(F[i - 1], Err("project lists subtask", proj, ids[i]))
            ELSE F[i - 1]
    IN F[Len(ids)]

project_task_errors(task_entities, project_entities) ==
    LET F[i \in 0..Len(project_entities.keys)] ==
            IF i = 0 THEN <<>>
            ELSE F[i - 1] \o project_task_errors_of(task_entities, project_entities,
                                                    project_entities.keys[i])
    IN F[Len(project_entities.keys)]

validate_sp_data(backup) ==
    IF "data" \notin backup.keys
    THEN <<Err("missing data", None, None)>>
    ELSE envelope_errors(backup.keys)
         \o duplicate_errors(backup.data.task.ids)
         \o entity_errors(backup.data.task.ids, backup.data.task.entities)
         \o project_reference_errors(backup.data.task.entities, backup.data.project.entities)
         \o parent_errors(backup.data.task.entities)
         \o subtask_errors(backup.data.task.entities)
         \o project_task_errors(backup.data.task.entities, backup.data.project.entities)

(***************************************************************************)
(* create_empty_sp_data: the backup that convert_google_tasks_to_sp        *)
(* returns wraps sp_data with the three envelope fields.                   *)
(***************************************************************************)
sp_backup ==
    [keys |-> {"timestamp", "lastUpdate", "crossModelVersion", "data"}, data |-> sp_data]

(***************************************************************************)
(* The documents validate_sp_data is run on.  Task ids are 1, 2, ...; an   *)
(* id above the number of entities names no task.  Project 1 may exist,    *)
(* project 2 never does.  Four families of documents are explored:         *)
(*   chains:  up to MaxChainTasks tasks with any parentId;                 *)
(*   pairs:   up to MaxPairTasks tasks with any parentId and subTaskIds;   *)
(*   listed:  up to MaxPairTasks tasks under projects with any taskIds;    *)
(*   mixed:   up to MaxMixedTasks tasks where the envelope, task.ids, the  *)
(*            project table and every reference of a task vary together.   *)
(***************************************************************************)
MaxChainTasks == 3
MaxPairTasks == 2
MaxMixedTasks == 1

EnvelopeKeys == {"data", "crossModelVersion", "timestamp", "lastUpdate"}

SeqsUpTo2(S) == {<<>>} \cup {<<x>> : x \in S} \cup {<<x, y>> : x \in S, y \in S}

SeqsUpTo1(S) == {<<>>} \cup {<<x>> : x \in S}

TaskFields(ProjRefs, ParentRefs, SubLists) ==
    [projectId : ProjRefs, parentId : ParentRefs, subTaskIds : SubLists]

TaskTable(n, f) ==
    [keys |-> [i \in 1..n |-> i],
     at   |-> [k \in 1..n |-> [id         |-> k,
                               projectId  |-> f[k].projectId,
                               parentId   |-> f[k].parentId,
                               subTaskIds |-> f[k].subTaskIds]]]

ProjectTable(n, f) ==
    [keys |-> [i \in 1..n |-> i],
     at   |-> [k \in 1..n |-> [id |-> k, taskIds |-> f[k]]]]

Backup(keys, ids, tasks, projects) ==
    [keys |-> keys,
     data |-> [task    |-> [ids |-> ids, entities |-> tasks],
               project |-> [ids |-> projects.keys, entities |-> projects]]]

IsChainDoc(d) ==
    \E n \in 0..MaxChainTasks :
        \E f \in [1..n -> TaskFields({None}, 0..(MaxChainTasks + 1), {<<>>})] :
            d = Backup(EnvelopeKeys, [i \in 1..n |-> i], TaskTable(n, f), EmptyDict)

IsPairDoc(d) ==
    \E n \in 0..MaxPairTasks :
        \E f \in [1..n -> TaskFields({None}, 0..(MaxPairTasks + 1),
                                     SeqsUpTo1(1..(MaxPairTasks + 1)))] :
            d = Backup(EnvelopeKeys, [i \in 1..n |-> i], TaskTable(n, f), EmptyDict)

IsListedDoc(d) ==
    \E n \in 0..MaxPairTasks :
        \E f \in [1..n -> TaskFields({None}, 0..MaxPairTasks, {<<>>})] :
            \/ \E g \in [1..1 -> SeqsUpTo2(1..(MaxPairTasks + 1))] :
                   d = Backup(EnvelopeKeys, [i \in 1..n |-> i], TaskTable(n, f),
                              ProjectTable(1, g))
            \/ \E g \in [1..2 -> SeqsUpTo1(1..(MaxPairTasks + 1))] :
                   d = Backup(EnvelopeKeys, [i \in 1..n |-> i], TaskTable(n, f),
                              ProjectTable(2, g))

MixedIdLists(keys) ==
    {keys, keys \o keys, Append(keys, MaxMixedTasks + 1)}

IsMixedDoc(d) ==
    \E n \in 0..MaxMixedTasks :
        \E f \in [1..n -> TaskFields({None, 1, 2}, 0..(MaxMixedTasks + 1),
                                     SeqsUpTo1(1..(MaxMixedTasks + 1)))] :
            \E k \in SUBSET (EnvelopeKeys \ {"data"}) :
                \E ids \in MixedIdLists([i \in 1..n |-> i]) :
                    \E p \in {EmptyDict, ProjectTable(1, <<[i \in 1..n |-> i]>>)} :
                        d = Backup(k \cup {"data"}, ids, TaskTable(n, f), p)

IsNoDataDoc(d) ==
    \E k \in SUBSET (EnvelopeKeys \ {"data"}) : d = [keys |-> k]

(***************************************************************************)
(* validate_sp_data is called on a document and returns.                   *)
(***************************************************************************)
ConversionIdle ==
    /\ pc = "idle"
    /\ uuids = 0
    /\ source = <<>>
    /\ lists = <<>>
    /\ id_mapping = [k \in {} |-> None]
    /\ all_tasks = EmptyDict
    /\ task_id_to_original = EmptyDict
    /\ project_task_ids = EmptyDict
    /\ project_id = None
    /\ task_ids = <<>>
    /\ sp_data = [project |-> [ids |-> <<>>, entities |-> EmptyDict],
                  task    |-> [ids |-> <<>>, entities |-> EmptyDict]]

ValidateInit ==
    /\ ConversionIdle
    /\ MainIdle
    /\ FunctionsIdle
    /\ vpc = "call"
    /\ \/ IsChainDoc(sp_doc)
       \/ IsPairDoc(sp_doc)
       \/ IsListedDoc(sp_doc)
       \/ IsMixedDoc(sp_doc)
       \/ IsNoDataDoc(sp_doc)
    /\ errors = <<>>

Validate ==
    /\ vpc = "call"
    /\ vpc' = "returned"
    /\ errors' = validate_sp_data(sp_doc)
    /\ UNCHANGED sp_doc
    /\ UNCHANGED <<conversion_vars, main_vars, function_vars>>

ValidateNext == Validate

SpecValidate == ValidateInit /\ [][ValidateNext]_vars

(***************************************************************************)
(* main.  The input path holds no file, a file that is not JSON, JSON that *)
(* the conversion fails on (it raises), or an export; an export converts   *)
(* to one of three backups that convert_google_tasks_to_sp returns: for no *)
(* task list, for one list with one task, and for one list with one task   *)
(* whose parent field is its own id.  Opening the output file or writing   *)
(* to it can fail.                                                         *)
(***************************************************************************)
InputFiles == {"not found", "invalid json", "conversion raises", "export"}

OutputDisks == {"writable", "open fails", "write fails"}

ExportResults ==
    { Backup(EnvelopeKeys, <<>>, EmptyDict, EmptyDict),
      Backup(EnvelopeKeys, <<2>>,
             [keys |-> <<2>>,
              at   |-> (2 :> [id |-> 2, projectId |-> 1, parentId |-> None,
                              subTaskIds |-> <<>>])],
             [keys |-> <<1>>, at |-> (1 :> [id |-> 1, taskIds |-> <<2>>])]),
      Backup(EnvelopeKeys, <<2>>,
             [keys |-> <<2>>,
              at   |-> (2 :> [id |-> 2, projectId |-> 1, parentId |-> 2,
                              subTaskIds |-> <<2>>])],
             [keys |-> <<1>>, at |-> (1 :> [id |-> 1, taskIds |-> <<>>])]) }

MainInit ==
    /\ ConversionIdle
    /\ ValidationIdle
    /\ FunctionsIdle
    /\ mpc = "read"
    /\ args \in [validate : BOOLEAN, dry_run : BOOLEAN, verbose : BOOLEAN]
    /\ input_file \in InputFiles
    /\ export_result \in ExportResults
    /\ output_disk \in OutputDisks
    /\ main_sp_data = [keys |-> {}]
    /\ main_errors = <<>>
    /\ validator_ran = FALSE
    /\ output_opened = FALSE
    /\ output_written = FALSE
    /\ exit_status = "running"

\* sys.exit(1)
Exit1 ==
    /\ mpc' = "exit"
    /\ exit_status' = "1"

\* main, lines 869-881.
ReadInput ==
    /\ mpc = "read"
    /\ IF input_file \in {"not found", "invalid json"}
       THEN Exit1
       ELSE mpc' = "convert" /\ UNCHANGED exit_status
    /\ UNCHANGED <<args, input_file, export_result, output_disk, main_sp_data, main_errors,
                   validator_ran, output_opened, output_written>>
    /\ UNCHANGED <<conversion_vars, validation_vars, function_vars>>

\* main, lines 883-888.
ConvertInput_swallowing ==
    /\ mpc = "convert"
    /\ mpc' = "validate"
    /\ main_sp_data' = export_result
    /\ UNCHANGED <<args, input_file, export_result, output_disk, main_errors,
                   validator_ran, output_opened, output_written, exit_status>>
    /\ UNCHANGED <<conversion_vars, validation_vars, function_vars>>

ConvertInput ==
    /\ mpc = "convert"
    /\ IF input_file = "conversion raises"
       THEN Exit1 /\ UNCHANGED main_sp_data
       ELSE /\ mpc' = "validate"
            /\ main_sp_data' = export_result
            /\ UNCHANGED exit_status
    /\ UNCHANGED <<args, input_file, export_result, output_disk, main_errors,
                   validator_ran, output_opened, output_written>>
    /\ UNCHANGED <<conversion_vars, validation_vars, function_vars>>

\* main, lines 890-902.
ValidateOutput_without_exit ==
    /\ mpc = "validate"
    /\ mpc' = "write"
    /\ IF args.validate
       THEN /\ validator_ran' = TRUE
            /\ main_errors' = validate_sp_data(main_sp_data)
       ELSE UNCHANGED <<validator_ran, main_errors>>
    /\ UNCHANGED <<args, input_file, export_result, output_disk, main_sp_data,
                   output_opened, output_written, exit_status>>
    /\ UNCHANGED <<conversion_vars, validation_vars, function_vars>>

ValidateOutput ==
    /\ mpc = "validate"
    /\ IF args.validate
       THEN /\ validator_ran' = TRUE
            /\ main_errors' = validate_sp_data(main_sp_data)
            /\ IF validate_sp_data(main_sp_data) # <<>>
               THEN Exit1
               ELSE mpc' = "write" /\ UNCHANGED exit_status
       ELSE /\ mpc' = "write"
            /\ UNCHANGED <<validator_ran, main_errors, exit_status>>
    /\ UNCHANGED <<args, input_file, export_result, output_disk, main_sp_data,
                   output_opened, output_written>>
    /\ UNCHANGED <<conversion_vars, validation_vars, function_vars>>

\* main, lines 904-922.
WriteOutput ==
    /\ mpc = "write"
    /\ IF ~args.dry_run
       THEN CASE output_disk = "writable" ->
                     /\ output_opened' = TRUE
                     /\ output_written' = TRUE
                     /\ mpc' = "summary"
                     /\ UNCHANGED exit_status
              [] output_disk = "open fails" ->
                     /\ Exit1
                     /\ UNCHANGED <<output_opened, output_written>>
              [] output_disk = "write fails" ->
                     /\ output_opened' = TRUE
                     /\ Exit1
                     /\ UNCHANGED output_written
       ELSE /\ mpc' = "summary"
            /\ UNCHANGED <<output_opened, output_written, exit_status>>
    /\ UNCHANGED <<args, input_file, export_result, output_disk, main_sp_data, main_errors,
                   validator_ran>>
    /\ UNCHANGED <<conversion_vars, validation_vars, function_vars>>

\* main, lines 924-928, and the return of main.
Summary ==
    /\ mpc = "summary"
    /\ mpc' = "exit"
    /\ exit_status' = "0"
    /\ UNCHANGED <<args, input_file, export_result, output_disk, main_sp_data, main_errors,
                   validator_ran, output_opened, output_written>>
    /\ UNCHANGED <<conversion_vars, validation_vars, function_vars>>

MainNext == ReadInput \/ ConvertInput \/ ValidateOutput \/ WriteOutput \/ Summary

SpecMain == MainInit /\ [][MainNext]_vars

(***************************************************************************)
(* The completion and time fields of a task.  A timestamp field of the     *)
(* source is absent, the empty string, a value that is no ISO 8601 text,   *)
(* ISO text datetime.fromisoformat accepts, or ISO text whose fraction it  *)
(* rejects.  ISO text is its wall-clock reading in seconds after           *)
(* 1970-01-01T00:00:00, its microseconds and its zone.  An optional value  *)
(* is <<>> for None and <<v>> for v.                                       *)
(***************************************************************************)
MaxWallHours == 1

Zones == {"Z", "+01:00", "-01:00"}

WallSeconds == {h * 3600 + s : h \in (0 - MaxWallHours)..MaxWallHours, s \in {0 - 1, 0}}

Microseconds == {0, 500000, 999999}

NoText(form) == [form |-> form, wall |-> 0, micro |-> 0, zone |-> "Z"]

Timestamps ==
    {NoText("absent"), NoText("empty"), NoText("malformed")}
    \cup [form : {"iso", "iso, fraction rejected"}, wall : WallSeconds,
          micro : Microseconds, zone : Zones]

\* What the task's 'status' holds; "absent" stands for a task without the key.
Statuses == {"absent", "needsAction", "completed", "Completed"}

\* The clock reads later than every timestamp of the export.
Clock == {(MaxWallHours + 2) * 3600000 + k : k \in {0, 1}}

utcoffset(zone) ==
    CASE zone = "Z" -> 0
      [] zone = "+01:00" -> 3600
      [] zone = "-01:00" -> 0 - 3600

\* int(dt.timestamp() * 1000), line 91: int truncates toward zero.
unix_ms(seconds, micro) ==
    IF seconds >= 0
    THEN seconds * 1000 + (micro \div 1000)
    ELSE seconds * 1000 + ((micro + 999) \div 1000)

parse_iso_to_unix_ms(iso_string) ==
    CASE iso_string.form \in {"absent", "empty"} -> <<>>
      [] iso_string.form = "malformed" -> <<>>
      [] iso_string.form = "iso" ->
             <<unix_ms(iso_string.wall - utcoffset(iso_string.zone), iso_string.micro)>>
      [] iso_string.form = "iso, fraction rejected" ->
             <<unix_ms(iso_string.wall - utcoffset(iso_string.zone), 0)>>

\* updated_ts or current_ts
or_current(updated_ts, now) ==
    IF updated_ts = <<>> THEN now
    ELSE IF updated_ts[1] = 0 THEN now
    ELSE updated_ts[1]

\* convert_task_with_assigned_id, lines 228-234, 248, 254-255 and 260-261.
completion_and_timestamps_parsing_any_status(gtask, now) ==
    LET is_done    == gtask.status = "completed"
        done_on    == parse_iso_to_unix_ms(gtask.completed)
        updated_ts == parse_iso_to_unix_ms(gtask.updated)
    IN [isDone  |-> is_done,
        doneOn  |-> done_on,
        created |-> or_current(updated_ts, now),
        updated |-> or_current(updated_ts, now)]

completion_and_timestamps(gtask, now) ==
    LET is_done    == gtask.status = "completed"
        done_on    == IF is_done THEN parse_iso_to_unix_ms(gtask.completed) ELSE <<>>
        updated_ts == parse_iso_to_unix_ms(gtask.updated)
    IN [isDone  |-> is_done,
        doneOn  |-> done_on,
        created |-> or_current(updated_ts, now),
        updated |-> or_current(updated_ts, now)]

FieldsInit ==
    /\ ConversionIdle
    /\ ValidationIdle
    /\ MainIdle
    /\ TitleIdle
    /\ WalkIdle
    /\ fpc = "call"
    /\ gtask_fields \in [status : Statuses, completed : Timestamps, updated : Timestamps]
    /\ current_ts \in Clock
    /\ sp_task = <<>>

ConvertFields ==
    /\ fpc = "call"
    /\ fpc' = "returned"
    /\ sp_task' = completion_and_timestamps(gtask_fields, current_ts)
    /\ UNCHANGED <<gtask_fields, current_ts>>
    /\ UNCHANGED <<conversion_vars, validation_vars, main_vars, title_vars, walk_vars>>

FieldsNext == ConvertFields

SpecFields == FieldsInit /\ [][FieldsNext]_vars

(***************************************************************************)
(* sanitize_title.  A title is absent or a string, and a string is the     *)
(* sequence of its characters.                                             *)
(***************************************************************************)
MaxTitleLen == 5

Whitespace == {" ", "\t"}

Characters == Whitespace \cup {"a", "b"}

Strings == UNION {[1..n -> Characters] : n \in 0..MaxTitleLen}

Titles == {[present |-> FALSE, text |-> <<>>]} \cup [present : {TRUE}, text : Strings]

\* "Untitled Task"
Placeholder == <<"U", "n", "t", "i", "t", "l", "e", "d", " ", "T", "a", "s", "k">>

RECURSIVE lstrip(_)
lstrip(text) ==
    IF text = <<>> THEN <<>>
    ELSE IF Head(text) \in Whitespace THEN lstrip(Tail(text))
    ELSE text

RECURSIVE rstrip(_)
rstrip(text) ==
    IF text = <<>> THEN <<>>
    ELSE IF text[Len(text)] \in Whitespace THEN rstrip(SubSeq(text, 1, Len(text) - 1))
    ELSE text

\* str.strip()
strip(text) == rstrip(lstrip(text))

sanitize_title_stripping_left_only(t) ==
    IF ~t.present THEN Placeholder
    ELSE IF t.text = <<>> THEN Placeholder
    ELSE IF lstrip(t.text) = <<>> THEN Placeholder
    ELSE lstrip(t.text)

sanitize_title(t) ==
    IF ~t.present THEN Placeholder
    ELSE IF t.text = <<>> THEN Placeholder
    ELSE IF strip(t.text) = <<>> THEN Placeholder
    ELSE strip(t.text)

TitleInit ==
    /\ ConversionIdle
    /\ ValidationIdle
    /\ MainIdle
    /\ FieldsIdle
    /\ WalkIdle
    /\ tpc \in {"task", "project"}
    /\ title \in Titles
    /\ sanitized = <<>>

\* convert_task_with_assigned_id, line 245.
SanitizeTaskTitle ==
    /\ tpc = "task"
    /\ tpc' = "returned"
    /\ sanitized' = sanitize_title(title)
    /\ UNCHANGED title
    /\ UNCHANGED <<conversion_vars, validation_vars, main_vars, field_vars, walk_vars>>

\* convert_task_list, line 362.
SanitizeProjectTitle ==
    /\ tpc = "project"
    /\ tpc' = "returned"
    /\ sanitized' = sanitize_title(title)
    /\ UNCHANGED title
    /\ UNCHANGED <<conversion_vars, validation_vars, main_vars, field_vars, walk_vars>>

TitleNext == SanitizeTaskTitle \/ SanitizeProjectTitle

SpecTitle == TitleInit /\ [][TitleNext]_vars

(***************************************************************************)
(* validate_sp_data, lines 780-797, one step of its loops at a time: the   *)
(* for loop over task_entities and, inside it, the while loop that walks   *)
(* up the parent references.  The documents are the chains: up to          *)
(* MaxWalkTasks tasks 1, 2, ... with any parentId, MaxWalkTasks + 1 being  *)
(* a task that does not exist.                                             *)
(***************************************************************************)
MaxWalkTasks == 3

WalkInit ==
    /\ ConversionIdle
    /\ ValidationIdle
    /\ MainIdle
    /\ FieldsIdle
    /\ TitleIdle
    /\ wpc = "tasks"
    /\ \E n \in 0..MaxWalkTasks :
           \E f \in [1..n -> TaskFields({None}, 0..(MaxWalkTasks + 1), {<<>>})] :
               w_entities = TaskTable(n, f)
    /\ w_task = 0
    /\ w_visited = {}
    /\ w_current = None
    /\ w_errors = <<>>

\* Lines 781-791: the for loop takes the next task.
NextTask ==
    /\ wpc = "tasks"
    /\ w_task < Len(w_entities.keys)
    /\ w_task' = w_task + 1
    /\ LET task_id   == w_entities.keys[w_task + 1]
           parent_id == w_entities.at[task_id].parentId
       IN IF parent_id = None
          THEN UNCHANGED <<wpc, w_visited, w_current, w_errors>>
          ELSE IF ~DictHas(w_entities, parent_id)
          THEN /\ w_errors' = Append(w_errors, Err("non-existent parent", task_id, parent_id))
               /\ UNCHANGED <<wpc, w_visited, w_current>>
          ELSE IF parent_id = task_id
          THEN /\ w_errors' = Append(w_errors, Err("own parent", task_id, None))
               /\ UNCHANGED <<wpc, w_visited, w_current>>
          ELSE /\ wpc' = "walk"
               /\ w_visited' = {task_id}
               /\ w_current' = parent_id
               /\ UNCHANGED w_errors
    /\ UNCHANGED w_entities
    /\ UNCHANGED <<conversion_vars, validation_vars, main_vars, field_vars, title_vars>>

\* Lines 792-797: one iteration of the while loop.
WalkStep_checking_start_only ==
    /\ wpc = "walk"
    /\ w_current # None
    /\ IF w_current = w_entities.keys[w_task]
       THEN /\ w_errors' = Append(w_errors, Err("circular", w_entities.keys[w_task], None))
            /\ wpc' = "tasks"
            /\ UNCHANGED <<w_visited, w_current>>
       ELSE /\ w_visited' = w_visited \cup {w_current}
            /\ w_current' = IF DictHas(w_entities, w_current)
                            THEN w_entities.at[w_current].parentId
                            ELSE None
            /\ UNCHANGED <<wpc, w_errors>>
    /\ UNCHANGED <<w_entities, w_task>>
    /\ UNCHANGED <<conversion_vars, validation_vars, main_vars, field_vars, title_vars>>

WalkStep ==
    /\ wpc = "walk"
    /\ w_current # None
    /\ IF w_current \in w_visited
       THEN /\ w_errors' = Append(w_errors, Err("circular", w_entities.keys[w_task], None))
            /\ wpc' = "tasks"
            /\ UNCHANGED <<w_visited, w_current>>
       ELSE /\ w_visited' = w_visited \cup {w_current}
            /\ w_current' = IF DictHas(w_entities, w_current)
                            THEN w_entities.at[w_current].parentId
                            ELSE None
            /\ UNCHANGED <<wpc, w_errors>>
    /\ UNCHANGED <<w_entities, w_task>>
    /\ UNCHANGED <<conversion_vars, validation_vars, main_vars, field_vars, title_vars>>

\* Line 792: the while loop ends when current is None.
WalkExit ==
    /\ wpc = "walk"
    /\ w_current = None
    /\ wpc' = "tasks"
    /\ UNCHANGED <<w_entities, w_task, w_visited, w_current, w_errors>>
    /\ UNCHANGED <<conversion_vars, validation_vars, main_vars, field_vars, title_vars>>

\* Line 781: the for loop ends after the last task.
WalkReturn ==
    /\ wpc = "tasks"
    /\ w_task = Len(w_entities.keys)
    /\ wpc' = "returned"
    /\ UNCHANGED <<w_entities, w_task, w_visited, w_current, w_errors>>
    /\ UNCHANGED <<conversion_vars, validation_vars, main_vars, field_vars, title_vars>>

WalkNext == NextTask \/ WalkStep \/ WalkExit \/ WalkReturn

\* The interpreter takes the next step of a running loop.
SpecWalk == WalkInit /\ [][WalkNext]_vars /\ WF_vars(WalkNext)

(***************************************************************************)
(* Vocabulary of the properties.                                           *)
(***************************************************************************)
Done == pc = "done"

Entities == sp_data.task.entities

TaskKeys == DOMAIN Entities.at

Projects == sp_data.project.entities

ProjectOfList(l) == Projects.at[lists[l]]

EligibleSources == {i \in DOMAIN source : Eligible(source[i].gtask)}

DroppedSources == {i \in DOMAIN source : ~Eligible(source[i].gtask)}

NoDuplicates(s) == Cardinality(SeqToSet(s)) = Len(s)

\* The first source task, in list-then-item order, whose id is x.
FirstWithId(x) ==
    CHOOSE i \in DOMAIN source :
        /\ source[i].gtask.id = x
        /\ \A k \in 1..(i - 1) : source[k].gtask.id # x

IdOccurs(x) == \E i \in DOMAIN source : source[i].gtask.id = x

\* The parent field of source task i resolves to a converted task of the flat table.
ParentResolves(i) ==
    /\ source[i].gtask.parent \in DOMAIN id_mapping
    /\ id_mapping[source[i].gtask.parent] \in TaskKeys

ParentOf(t) == IF t \in TaskKeys THEN Entities.at[t].parentId ELSE None

RECURSIVE Up(_, _)
Up(t, k) == IF k = 0 THEN t ELSE ParentOf(Up(t, k - 1))

IsOwnAncestor(t) == \E k \in 1..Cardinality(TaskKeys) : Up(t, k) = t

(***************************************************************************)
(* C1: a finished conversion holds exactly one converted task per source   *)
(* task that is neither deleted nor hidden, under the identifier generated *)
(* for it; the identifiers are pairwise distinct, data.task.ids has no     *)
(* duplicates and is as long as data.task.entities and as the number of    *)
(* eligible source tasks.                                                  *)
(***************************************************************************)
C1_OneTaskPerEligibleSource ==
    Done =>
        /\ NoDuplicates(sp_data.task.ids)
        /\ Len(sp_data.task.ids) = Cardinality(EligibleSources)
        /\ Cardinality(TaskKeys) = Cardinality(EligibleSources)
        /\ SeqToSet(sp_data.task.ids) = TaskKeys
        /\ \A i \in EligibleSources :
               /\ source[i].new_id \in TaskKeys
               /\ Entities.at[source[i].new_id].id = source[i].new_id
        /\ \A i, j \in EligibleSources : i # j => source[i].new_id # source[j].new_id

C1_Witness ==
    /\ Done
    /\ \E i, j \in EligibleSources :
           /\ i # j
           /\ source[i].gtask.id # 0
           /\ source[i].gtask.id = source[j].gtask.id
    /\ Len(sp_data.task.ids) = 2

(***************************************************************************)
(* C2: in a list holding an eligible task P without parent whose original  *)
(* id p no earlier source task uses, and an eligible task C whose parent   *)
(* is p, whichever comes first, after the conversion C's parentId is P's   *)
(* new identifier, P's subTaskIds holds C's new identifier, and the        *)
(* project's taskIds holds P's new identifier and not C's.                 *)
(***************************************************************************)
IsParentChildPair(i, j) ==
    /\ i \in EligibleSources
    /\ j \in EligibleSources
    /\ source[i].list = source[j].list
    /\ source[i].gtask.parent = 0
    /\ source[i].gtask.id # 0
    /\ \A k \in 1..(i - 1) : source[k].gtask.id # source[i].gtask.id
    /\ source[j].gtask.parent = source[i].gtask.id

PairLinked(i, j) ==
    LET P == source[i].new_id
        C == source[j].new_id
        taskIds == SeqToSet(ProjectOfList(source[i].list).taskIds)
    IN /\ Entities.at[C].parentId = P
       /\ C \in SeqToSet(Entities.at[P].subTaskIds)
       /\ P \in taskIds
       /\ C \notin taskIds

C2_ParentChildPairLinked ==
    Done => \A i, j \in DOMAIN source : IsParentChildPair(i, j) => PairLinked(i, j)

C2_Witness ==
    /\ Done
    /\ \E i, j \in DOMAIN source : j < i /\ IsParentChildPair(i, j) /\ PairLinked(i, j)

(***************************************************************************)
(* C3: after the conversion every converted task that carries a parentId   *)
(* has the identifier of a task of data.task.entities as its parentId.     *)
(***************************************************************************)
C3_ParentExists ==
    Done => \A t \in TaskKeys :
                Entities.at[t].parentId # None => Entities.at[t].parentId \in TaskKeys

(***************************************************************************)
(* C4: after the conversion no converted task is its own ancestor:         *)
(* following parentId from a task never returns to that task.              *)
(***************************************************************************)
C4_NoCycle ==
    Done => \A t \in TaskKeys : ~IsOwnAncestor(t)

(***************************************************************************)
(* C5: after the conversion, for all converted tasks A and B, B is in A's  *)
(* subTaskIds exactly when B's parentId is A, and no subTaskIds holds the  *)
(* same identifier twice.                                                  *)
(***************************************************************************)
C5_ChildListsConsistent ==
    Done =>
        /\ \A A, B \in TaskKeys :
               (B \in SeqToSet(Entities.at[A].subTaskIds)) <=> (Entities.at[B].parentId = A)
        /\ \A A \in TaskKeys : NoDuplicates(Entities.at[A].subTaskIds)

C5_Witness ==
    /\ Done
    /\ \E A, B \in TaskKeys :
           /\ A # B
           /\ Entities.at[B].parentId = A
           /\ Entities.at[A].subTaskIds = <<B>>
           /\ B < A

(***************************************************************************)
(* C6: after the conversion every identifier of a project's taskIds is a   *)
(* converted task without parentId.                                        *)
(***************************************************************************)
C6_TaskIdsTopLevel ==
    Done => \A p \in DOMAIN Projects.at :
                \A t \in SeqToSet(Projects.at[p].taskIds) :
                    t \in TaskKeys /\ Entities.at[t].parentId = None

(***************************************************************************)
(* C7: an eligible source task whose parent field does not resolve through *)
(* the ID mapping to a converted task of the flat table has no parentId    *)
(* after the conversion and stays in the taskIds of its project.           *)
(***************************************************************************)
C7_UnresolvedParentTopLevel ==
    Done => \A i \in EligibleSources :
                (source[i].gtask.parent # 0 /\ ~ParentResolves(i)) =>
                    /\ Entities.at[source[i].new_id].parentId = None
                    /\ source[i].new_id \in SeqToSet(ProjectOfList(source[i].list).taskIds)

(***************************************************************************)
(* C8: validate_sp_data returns no error for the result of a conversion.   *)
(***************************************************************************)
C8_ConversionValidates ==
    Done => validate_sp_data(sp_backup) = <<>>

(***************************************************************************)
(* C9: the identifier generated for a deleted or hidden source task is no  *)
(* key of data.task.entities, no entry of data.task.ids, of a project's    *)
(* taskIds or of a task's subTaskIds; the project of a list that holds     *)
(* only such tasks has no task.                                            *)
(***************************************************************************)
ListHasOnlyDropped(l) ==
    /\ \E i \in DOMAIN source : source[i].list = l
    /\ \A i \in DOMAIN source : source[i].list = l => ~Eligible(source[i].gtask)

C9_DroppedNeverAppear ==
    Done =>
        /\ \A i \in DroppedSources :
               /\ source[i].new_id \notin TaskKeys
               /\ source[i].new_id \notin SeqToSet(sp_data.task.ids)
               /\ \A p \in DOMAIN Projects.at :
                      source[i].new_id \notin SeqToSet(Projects.at[p].taskIds)
               /\ \A t \in TaskKeys :
                      source[i].new_id \notin SeqToSet(Entities.at[t].subTaskIds)
        /\ \A l \in DOMAIN lists :
               ListHasOnlyDropped(l) =>
                   /\ ProjectOfList(l).taskIds = <<>>
                   /\ \A t \in TaskKeys : Entities.at[t].projectId # lists[l]

C9_Witness ==
    /\ Done
    /\ \E i \in DroppedSources : source[i].gtask.hidden /\ ~source[i].gtask.deleted
    /\ \E l \in DOMAIN lists : ListHasOnlyDropped(l)
    /\ TaskKeys # {}

(***************************************************************************)
(* C10: an entry of the ID mapping, once written, is never changed or      *)
(* removed by a later step, and the mapping holds, for every original id   *)
(* read so far, the identifier generated for the first source task with    *)
(* that id.                                                                *)
(***************************************************************************)
MappingKept ==
    \A x \in DOMAIN id_mapping : x \in DOMAIN id_mapping' /\ id_mapping'[x] = id_mapping[x]

MappingIsFirstOccurrence ==
    /\ DOMAIN id_mapping = {x \in 1..MaxId : IdOccurs(x)}
    /\ \A x \in DOMAIN id_mapping : id_mapping[x] = source[FirstWithId(x)].new_id

C10_FirstOccurrenceWins ==
    [][MappingKept]_vars /\ [](MappingIsFirstOccurrence)

C10_Witness ==
    /\ Done
    /\ \E i, j \in DOMAIN source :
           /\ i < j
           /\ source[i].list # source[j].list
           /\ source[i].gtask.id # 0
           /\ source[i].gtask.id = source[j].gtask.id
           /\ Eligible(source[j].gtask)
           /\ id_mapping[source[i].gtask.id] = source[i].new_id

(***************************************************************************)
(* Vocabulary of the properties of validate_sp_data.                       *)
(***************************************************************************)
Returned == vpc = "returned"

HasData == "data" \in sp_doc.keys

DocTasks == sp_doc.data.task.entities

DocTaskKeys == DOMAIN DocTasks.at

DocProjects == sp_doc.data.project.entities

DocProjectKeys == DOMAIN DocProjects.at

HasError(kind, a, b) == \E i \in DOMAIN errors : errors[i] = Err(kind, a, b)

ErrorsOfKinds(kinds) == {i \in DOMAIN errors : errors[i].kind \in kinds}

MissingKind(key) ==
    CASE key = "data" -> "missing data"
      [] key = "crossModelVersion" -> "missing crossModelVersion"
      [] key = "timestamp" -> "missing timestamp"
      [] key = "lastUpdate" -> "missing lastUpdate"

ParentKinds == {"non-existent parent", "own parent", "circular"}

ProjectListKinds == {"project lists non-existent task", "project lists subtask"}

DocParentOf(t) == IF t \in DocTaskKeys THEN DocTasks.at[t].parentId ELSE None

RECURSIVE DocUp(_, _)
DocUp(t, k) == IF k = 0 THEN t ELSE DocParentOf(DocUp(t, k - 1))

\* The chain of parentId references from t comes back to a task already on it.
ChainRevisits(t) ==
    \E i, j \in 0..(Cardinality(DocTaskKeys) + 1) :
        i < j /\ DocUp(t, i) # None /\ DocUp(t, i) = DocUp(t, j)

\* t lies on a cycle of parentId references of length 2 or more.
OnLongCycle(t) ==
    /\ DocParentOf(t) # t
    /\ \E k \in 2..Cardinality(DocTaskKeys) : DocUp(t, k) = t

BadParent(t) ==
    /\ DocParentOf(t) # None
    /\ \/ DocParentOf(t) \notin DocTaskKeys
       \/ DocParentOf(t) = t
       \/ ChainRevisits(t)

BadListing(p, i) ==
    LET t == DocProjects.at[p].taskIds[i]
    IN t \notin DocTaskKeys \/ DocTasks.at[t].parentId # None

BadListings == {<<p, i>> \in DocProjectKeys \X (1..(Cardinality(DocTaskKeys) + 2)) :
                    i \in DOMAIN DocProjects.at[p].taskIds /\ BadListing(p, i)}

(***************************************************************************)
(* C11: validate_sp_data never short-circuits: the returned list holds a   *)
(* message for every missing top-level field and, when the document has    *)
(* data, for the duplicate task ids, every id without entity, every        *)
(* project reference to a missing project, every bad parent reference,     *)
(* every inconsistent child-list entry and every bad project-list entry,   *)
(* whatever other violations the document has.                             *)
(***************************************************************************)
C11_NoShortCircuit ==
    Returned =>
        /\ \A key \in EnvelopeKeys \ sp_doc.keys : HasError(MissingKind(key), None, None)
        /\ HasData =>
            /\ ~NoDuplicates(sp_doc.data.task.ids) => HasError("duplicate task ids", None, None)
            /\ \A t \in SeqToSet(sp_doc.data.task.ids) :
                   t \notin DocTaskKeys => HasError("id without entity", t, None)
            /\ \A t \in DocTaskKeys :
                   /\ (DocTasks.at[t].projectId # None
                        /\ DocTasks.at[t].projectId \notin DocProjectKeys)
                      => HasError("non-existent project", t, DocTasks.at[t].projectId)
                   /\ BadParent(t) => \E i \in ErrorsOfKinds(ParentKinds) : errors[i].a = t
                   /\ \A c \in SeqToSet(DocTasks.at[t].subTaskIds) :
                          /\ c \notin DocTaskKeys => HasError("non-existent subtask", t, c)
                          /\ (c \in DocTaskKeys /\ DocTasks.at[c].parentId # t)
                             => HasError("subtask without parent", c, t)
            /\ \A l \in BadListings :
                   \E i \in ErrorsOfKinds(ProjectListKinds) :
                       errors[i].a = l[1] /\ errors[i].b = DocProjects.at[l[1]].taskIds[l[2]]

(***************************************************************************)
(* C12: when a task B has parentId A, A exists and A's subTaskIds does not *)
(* hold B, validate_sp_data returns a non-empty list.                      *)
(***************************************************************************)
C12_ParentListsChild ==
    (Returned /\ HasData) =>
        \A A, B \in DocTaskKeys :
            (DocTasks.at[B].parentId = A /\ B \notin SeqToSet(DocTasks.at[A].subTaskIds))
                => errors # <<>>

(***************************************************************************)
(* C13: validate_sp_data reports an error for every task whose projectId   *)
(* names a missing project or is absent or empty, and no project-reference *)
(* error for a task whose projectId is a key of data.project.entities.     *)
(***************************************************************************)
C13_ProjectReferenceResolves ==
    (Returned /\ HasData) =>
        \A t \in DocTaskKeys :
            (DocTasks.at[t].projectId \notin DocProjectKeys)
                <=> (\E i \in ErrorsOfKinds({"non-existent project"}) : errors[i].a = t)

(***************************************************************************)
(* C14: validate_sp_data reports a parent-reference error for a task       *)
(* exactly when its parentId names a non-existent task, or is its own id,  *)
(* or its chain of parentId references revisits a task of the chain; a     *)
(* task on a cycle of length 2 or more gets a "circular" message, and a    *)
(* document without such a task gets no parent-reference message.          *)
(***************************************************************************)
C14_ParentErrorsExact ==
    (Returned /\ HasData) =>
        /\ \A t \in DocTaskKeys :
               BadParent(t) <=> (\E i \in ErrorsOfKinds(ParentKinds) : errors[i].a = t)
        /\ \A t \in DocTaskKeys : OnLongCycle(t) => HasError("circular", t, None)
        /\ (\A t \in DocTaskKeys : ~BadParent(t)) => ErrorsOfKinds(ParentKinds) = {}

C14_Witness ==
    /\ Returned
    /\ HasData
    /\ \E t \in DocTaskKeys :
           /\ ~(\E k \in 1..Cardinality(DocTaskKeys) : DocUp(t, k) = t)
           /\ DocParentOf(t) \in DocTaskKeys
           /\ OnLongCycle(DocParentOf(t))
           /\ HasError("circular", t, None)

(***************************************************************************)
(* C15: validate_sp_data reports one error for every entry of a project's  *)
(* taskIds that has no task entity or names a task with a parentId, and no *)
(* project-list error when every entry exists and has no parentId.         *)
(***************************************************************************)
C15_ProjectListErrorsExact ==
    (Returned /\ HasData) =>
        /\ \A l \in BadListings :
               \E i \in ErrorsOfKinds(ProjectListKinds) :
                   errors[i].a = l[1] /\ errors[i].b = DocProjects.at[l[1]].taskIds[l[2]]
        /\ Cardinality(ErrorsOfKinds(ProjectListKinds)) = Cardinality(BadListings)

C15_Witness ==
    /\ Returned
    /\ HasData
    /\ \E p \in DocProjectKeys :
           \E i, j \in DOMAIN DocProjects.at[p].taskIds :
               /\ DocProjects.at[p].taskIds[i] \notin DocTaskKeys
               /\ DocProjects.at[p].taskIds[j] \in DocTaskKeys
               /\ DocTasks.at[DocProjects.at[p].taskIds[j]].parentId # None
    /\ Cardinality(ErrorsOfKinds(ProjectListKinds)) = 2

(***************************************************************************)
(* Vocabulary of the properties of main.                                   *)
(***************************************************************************)
Exited == mpc = "exit"

FatalInput == input_file \in {"not found", "invalid json", "conversion raises"}

(***************************************************************************)
(* C16: in a run of main the validation comes before the writing: with     *)
(* --validate and a non-empty error list the run exits with status 1 and   *)
(* the output file is never opened; without --validate the validator is    *)
(* not run and the errors it would report change neither the exit status   *)
(* nor the writing.                                                        *)
(***************************************************************************)
C16_ValidateBeforeWrite ==
    /\ (validator_ran /\ main_errors # <<>>) =>
           /\ Exited
           /\ exit_status = "1"
           /\ ~output_opened
           /\ ~output_written
    /\ (args.validate /\ output_opened) => (validator_ran /\ main_errors = <<>>)
    /\ validator_ran => args.validate
    /\ ~args.validate =>
           /\ main_errors = <<>>
           /\ (Exited /\ ~FatalInput /\ ~args.dry_run) =>
                  /\ output_disk = "writable" => (output_written /\ exit_status = "0")
                  /\ output_disk # "writable" => exit_status = "1"
           /\ (Exited /\ ~FatalInput /\ args.dry_run) => exit_status = "0"

C16_Witness ==
    /\ Exited
    /\ args.validate
    /\ ~args.dry_run
    /\ output_disk = "writable"
    /\ validator_ran
    /\ main_errors # <<>>
    /\ exit_status = "1"

(***************************************************************************)
(* C17: a missing input file, an input that is not JSON and a conversion   *)
(* that raises each end the run with status 1 before the validation and    *)
(* before any write, and with --dry-run no output file is written at all.  *)
(***************************************************************************)
C17_FatalBeforeWrite ==
    /\ FatalInput =>
           /\ mpc \in {"read", "convert", "exit"}
           /\ input_file # "conversion raises" => mpc \in {"read", "exit"}
           /\ Exited => exit_status = "1"
           /\ ~validator_ran
           /\ ~output_opened
           /\ ~output_written
    /\ args.dry_run => (~output_opened /\ ~output_written)

C17_Witness ==
    /\ Exited
    /\ input_file = "conversion raises"
    /\ args.validate
    /\ ~args.dry_run
    /\ exit_status = "1"

(***************************************************************************)
(* Vocabulary of the properties of the completion and time fields.         *)
(***************************************************************************)
FieldsReturned == fpc = "returned"

\* The timestamp field holds ISO 8601 text.
Parses(ts) == ts.form \in {"iso", "iso, fraction rejected"}

(***************************************************************************)
(* C18: isDone is true exactly when the status is the token 'completed';   *)
(* doneOn is present only if isDone is true and the completion timestamp   *)
(* parses; a completed task whose completion timestamp parses has doneOn,  *)
(* and a task that is not completed has none whatever its completion       *)
(* timestamp.                                                              *)
(***************************************************************************)
C18_DoneIffCompleted ==
    FieldsReturned =>
        /\ sp_task.isDone <=> (gtask_fields.status = "completed")
        /\ sp_task.doneOn # <<>> => (sp_task.isDone /\ Parses(gtask_fields.completed))
        /\ (gtask_fields.status = "completed" /\ Parses(gtask_fields.completed)) =>
               (sp_task.isDone /\ sp_task.doneOn # <<>>)
        /\ gtask_fields.status # "completed" =>
               (~sp_task.isDone /\ sp_task.doneOn = <<>>)

C18_Witness ==
    /\ FieldsReturned
    /\ gtask_fields.status = "completed"
    /\ Parses(gtask_fields.completed)
    /\ sp_task.isDone
    /\ sp_task.doneOn = <<0>>

(***************************************************************************)
(* C19: created equals updated; both are the milliseconds parsed from the  *)
(* last-updated timestamp whenever it parses, the value 0 included, and    *)
(* both are the current instant only when it is absent or does not parse.  *)
(***************************************************************************)
C19_CreatedIsParsedUpdated ==
    FieldsReturned =>
        /\ sp_task.created = sp_task.updated
        /\ Parses(gtask_fields.updated) =>
               sp_task.created = parse_iso_to_unix_ms(gtask_fields.updated)[1]
        /\ sp_task.created = current_ts => ~Parses(gtask_fields.updated)
        /\ ~Parses(gtask_fields.updated) => sp_task.created = current_ts

(***************************************************************************)
(* Vocabulary of the properties of sanitize_title.                         *)
(***************************************************************************)
TitleReturned == tpc = "returned"

\* The positions of the characters of a string that are not whitespace.
NonBlank(text) == {i \in 1..Len(text) : text[i] \notin Whitespace}

\* The string from its first to its last character that is not whitespace.
Trimmed(text) ==
    LET first == CHOOSE i \in NonBlank(text) : \A j \in NonBlank(text) : i <= j
        last  == CHOOSE i \in NonBlank(text) : \A j \in NonBlank(text) : j <= i
    IN SubSeq(text, first, last)

(***************************************************************************)
(* C20: sanitize_title gives the placeholder 'Untitled Task' for an absent *)
(* title, the empty string and every string of whitespace only, and gives  *)
(* every other title without its leading and trailing whitespace and with  *)
(* its interior unchanged; the title of a converted task or project is     *)
(* never empty, and sanitizing it again gives the same title.              *)
(***************************************************************************)
C20_TitleSanitized ==
    TitleReturned =>
        /\ (~title.present \/ NonBlank(title.text) = {}) => sanitized = Placeholder
        /\ (title.present /\ NonBlank(title.text) # {}) => sanitized = Trimmed(title.text)
        /\ sanitized # <<>>
        /\ sanitize_title([present |-> TRUE, text |-> sanitized]) = sanitized

C20_Witness ==
    /\ TitleReturned
    /\ title.present
    /\ title.text = <<" ", "a", "\t", "b", " ">>
    /\ sanitized = <<"a", "\t", "b">>

(***************************************************************************)
(* Vocabulary of the later properties of the conversion.                   *)
(***************************************************************************)
SourcesOfList(l) == {i \in DOMAIN source : source[i].list = l}

ListHasNoEligible(l) == \A i \in SourcesOfList(l) : ~Eligible(source[i].gtask)

(***************************************************************************)
(* C21: a finished conversion holds exactly one project per task list, in  *)
(* the order of the lists and under pairwise distinct identifiers; no task *)
(* list gives no project and no task, and a task list without eligible     *)
(* task gives a project whose taskIds is empty.                            *)
(***************************************************************************)
C21_OneProjectPerList ==
    Done =>
        /\ sp_data.project.ids = lists
        /\ NoDuplicates(sp_data.project.ids)
        /\ DOMAIN Projects.at = SeqToSet(lists)
        /\ Projects.keys = lists
        /\ \A l \in DOMAIN lists : ProjectOfList(l).id = lists[l]
        /\ lists = <<>> => (sp_data.task.ids = <<>> /\ TaskKeys = {})
        /\ \A l \in DOMAIN lists : ListHasNoEligible(l) => ProjectOfList(l).taskIds = <<>>

C21_Witness ==
    /\ Done
    /\ Len(lists) = 2
    /\ SourcesOfList(1) = {}
    /\ SourcesOfList(2) # {}
    /\ ~ListHasNoEligible(2)
    /\ ProjectOfList(1).taskIds = <<>>
    /\ ProjectOfList(2).taskIds # <<>>

\* The identifiers produced for the eligible source tasks of list l, in arrival
\* order, without the members of the set `removed`.
ArrivalIds(l, removed) ==
    LET F[i \in 0..Len(source)] ==
            IF i = 0 THEN <<>>
            ELSE IF /\ source[i].list = l
                    /\ Eligible(source[i].gtask)
                    /\ source[i].new_id \notin removed
                 THEN Append(F[i - 1], source[i].new_id)
                 ELSE F[i - 1]
    IN F[Len(source)]

\* The identifiers the hierarchy builder returns: those of the eligible source
\* tasks whose parent field resolves to a converted task.
NonTopLevel ==
    {source[i].new_id : i \in {k \in EligibleSources :
                                   source[k].gtask.parent # 0 /\ ParentResolves(k)}}

(***************************************************************************)
(* C22: the final taskIds of every project is the list of the identifiers  *)
(* produced for the eligible tasks of its list, in arrival order, without  *)
(* the identifiers the hierarchy builder returned; an identifier removed   *)
(* from one project's list is in no project's taskIds.                     *)
(***************************************************************************)
C22_TaskIdsFilteredInOrder ==
    Done =>
        /\ \A l \in DOMAIN lists :
               /\ project_task_ids.at[lists[l]] = ArrivalIds(l, {})
               /\ ProjectOfList(l).taskIds = ArrivalIds(l, NonTopLevel)
        /\ \A t \in NonTopLevel : \A p \in DOMAIN Projects.at :
               t \notin SeqToSet(Projects.at[p].taskIds)

C22_Witness ==
    /\ Done
    /\ Len(lists) = 2
    /\ Len(ArrivalIds(2, {})) = 2
    /\ Len(ArrivalIds(2, NonTopLevel)) = 1
    /\ ProjectOfList(2).taskIds = <<source[2].new_id>>

\* The second pass run on the state the first pass left, and run again on
\* what that run left.
BuiltOnce == build_subtask_relationships(all_tasks, id_mapping, task_id_to_original)

BuiltTwice == build_subtask_relationships(BuiltOnce.tasks, id_mapping, task_id_to_original)

(***************************************************************************)
(* C23: build_subtask_relationships run a second time on the task table,   *)
(* the ID mapping and the new-id-to-source table a first run left changes  *)
(* no parentId and no subTaskIds, appends no child twice and returns the   *)
(* same set of identifiers.                                                *)
(***************************************************************************)
C23_BuildIdempotent ==
    /\ pc = "lists" =>
           /\ BuiltTwice.tasks = BuiltOnce.tasks
           /\ BuiltTwice.subtask_ids = BuiltOnce.subtask_ids
           /\ \A t \in DOMAIN BuiltTwice.tasks.at :
                  NoDuplicates(BuiltTwice.tasks.at[t].subTaskIds)
    /\ Done =>
           /\ BuiltOnce.tasks = all_tasks
           /\ BuiltOnce.subtask_ids = NonTopLevel

C23_Witness ==
    /\ Done
    /\ \E t, u \in TaskKeys :
           /\ t # u
           /\ Entities.at[t].subTaskIds = <<t, u>>
           /\ Entities.at[u].parentId = t
    /\ BuiltOnce.subtask_ids = TaskKeys

(***************************************************************************)
(* Vocabulary of the properties of the walk up the parent references.      *)
(***************************************************************************)
WalkReturned == wpc = "returned"

\* An iteration of the while loop that does not leave it visits a task that
\* the walk has not visited before.
WalkVisitsNew ==
    (wpc = "walk" /\ wpc' = "walk") =>
        /\ w_current \notin w_visited
        /\ w_visited' = w_visited \cup {w_current}

\* The step of the loops is the first visit of a task.
WalkStepsOnlyVisitNew == [][WalkVisitsNew]_vars

WalkReturns == <>WalkReturned

(***************************************************************************)
(* C24: the loop of validate_sp_data over the parent references ends on    *)
(* every document, whether the references form a cycle, lead into a cycle  *)
(* that does not hold the starting task or pass through a task that does   *)
(* not exist: every walk visits a task at most once before it stops.       *)
(***************************************************************************)
C24_WalkTerminates == WalkStepsOnlyVisitNew /\ WalkReturns

C24_Witness ==
    /\ WalkReturned
    /\ Len(w_entities.keys) = 3
    /\ w_entities.at[1].parentId = 2
    /\ w_entities.at[2].parentId = 3
    /\ w_entities.at[3].parentId = 2
    /\ w_errors = <<Err("circular", 1, None), Err("circular", 2, None),
                    Err("circular", 3, None)>>

\* The source tasks whose original id is x.
SourcesWithId(x) == {i \in DOMAIN source : source[i].gtask.id = x}

(***************************************************************************)
(* C25: when several source tasks share an original id X, every converted  *)
(* task whose parent field is X and that has a parentId has the identifier *)
(* generated for the first source task with id X as its parentId, and      *)
(* every converted task that came from a later task with id X has an empty *)
(* subTaskIds.                                                             *)
(***************************************************************************)
C25_ParentIsFirstOccurrence ==
    Done => \A x \in 1..MaxId :
                Cardinality(SourcesWithId(x)) > 1 =>
                    /\ \A i \in EligibleSources :
                           (/\ source[i].gtask.parent = x
                            /\ Entities.at[source[i].new_id].parentId # None) =>
                               Entities.at[source[i].new_id].parentId =
                                   source[FirstWithId(x)].new_id
                    /\ \A i \in EligibleSources \cap SourcesWithId(x) :
                           i # FirstWithId(x) =>
                               Entities.at[source[i].new_id].subTaskIds = <<>>

C25_Witness ==
    /\ Done
    /\ EligibleSources = {1, 2}
    /\ source[1].gtask.id = source[2].gtask.id
    /\ source[1].gtask.id # 0
    /\ source[1].gtask.parent = 0
    /\ source[2].gtask.parent = source[1].gtask.id
    /\ Entities.at[source[2].new_id].parentId = source[1].new_id
    /\ Entities.at[source[1].new_id].subTaskIds = <<source[2].new_id>>
    /\ Entities.at[source[2].new_id].subTaskIds = <<>>

\* The parent field of source task i names the id of source task j, the first
\* with that id, an eligible task of another task list.
ParentInOtherList(i, j) ==
    /\ source[i].gtask.parent # 0
    /\ IdOccurs(source[i].gtask.parent)
    /\ j = FirstWithId(source[i].gtask.parent)
    /\ Eligible(source[j].gtask)
    /\ source[j].list # source[i].list

(***************************************************************************)
(* C26: the projectId of every converted task is the identifier of the     *)
(* project generated for the task list that held it and a key of           *)
(* data.project.entities; a task whose parent field resolves to a task of  *)
(* another task list is that task's child, is not in the taskIds of its    *)
(* own project and keeps the projectId of its own list.                    *)
(***************************************************************************)
C26_ProjectIdIsOwnList ==
    Done =>
        /\ \A i \in EligibleSources :
               /\ Entities.at[source[i].new_id].projectId = lists[source[i].list]
               /\ Entities.at[source[i].new_id].projectId \in DOMAIN Projects.at
        /\ \A i, j \in EligibleSources :
               ParentInOtherList(i, j) =>
                   /\ Entities.at[source[i].new_id].parentId = source[j].new_id
                   /\ source[i].new_id \in SeqToSet(Entities.at[source[j].new_id].subTaskIds)
                   /\ source[i].new_id \notin SeqToSet(ProjectOfList(source[i].list).taskIds)
                   /\ Entities.at[source[i].new_id].projectId = lists[source[i].list]
                   /\ Entities.at[source[i].new_id].projectId #
                          Entities.at[source[j].new_id].projectId

C26_Witness ==
    /\ Done
    /\ EligibleSources = {1, 2}
    /\ ParentInOtherList(1, 2)
    /\ ProjectOfList(1).taskIds = <<>>
    /\ ProjectOfList(2).taskIds = <<source[2].new_id>>
    /\ Entities.at[source[1].new_id].projectId = lists[1]

\* The places of identifier t in the projects' taskIds and in the tasks'
\* subTaskIds: the owner of the list and the position in it.
TaskIdsPlaces(t) ==
    {pl \in UNION {{<<p, k>> : k \in DOMAIN Projects.at[p].taskIds} : p \in DOMAIN Projects.at} :
         Projects.at[pl[1]].taskIds[pl[2]] = t}

SubTaskIdsPlaces(t) ==
    {pl \in UNION {{<<u, k>> : k \in DOMAIN Entities.at[u].subTaskIds} : u \in TaskKeys} :
         Entities.at[pl[1]].subTaskIds[pl[2]] = t}

(***************************************************************************)
(* C27: after the conversion every converted task identifier occurs        *)
(* exactly once in all the projects' taskIds and all the tasks' subTaskIds *)
(* together: once in the taskIds of its own project or once in the         *)
(* subTaskIds of one task, never both and never neither.                   *)
(***************************************************************************)
C27_ListedExactlyOnce ==
    Done => \A t \in TaskKeys :
                /\ Cardinality(TaskIdsPlaces(t)) + Cardinality(SubTaskIdsPlaces(t)) = 1
                /\ \A pl \in TaskIdsPlaces(t) : pl[1] = Entities.at[t].projectId

C27_Witness ==
    /\ Done
    /\ \E t, u \in TaskKeys :
           /\ t # u
           /\ TaskIdsPlaces(t) = {<<Entities.at[t].projectId, 1>>}
           /\ SubTaskIdsPlaces(t) = {}
           /\ TaskIdsPlaces(u) = {}
           /\ SubTaskIdsPlaces(u) = {<<t, 1>>}

====
